---- MODULE Spec2Model ----
(***************************************************************************)
(* Model of gowebcrawler's WebCrawler.Crawl (src/crawler.go).              *)
(*                                                                         *)
(* Strings are sequences of one-character strings, so that HasPrefix and   *)
(* the concatenation of getAbsoluteUrl are computed as the code computes   *)
(* them.  A pointer to a Page is a positive integer, 0 is nil.  The Page   *)
(* a goroutine allocates lives at the address equal to the goroutine's     *)
(* index in goroutines (the root Page, allocated by Crawl itself, is       *)
(* carried by goroutine 1, the one started at crawler.go:69).              *)
(***************************************************************************)
EXTENDS Integers, Sequences, FiniteSets, Bags, TLC

\* ------------------------------------------------------------------------
\* The environment: configuration of the WebCrawler and the crawled site.
\* ------------------------------------------------------------------------

\* WebCrawler.RootUrl: the one-character host "h".
RootUrl == <<"h">>

\* Largest FetchLimit explored (0 means no limit).
MaxFetchLimit == 3

\* Longest string handed to getAbsoluteUrl on its own.
MaxStrLen == 2

\* Raw links as they appear in href attributes.
LinkA == <<"/", "a">>
LinkB == <<"/", "b">>
LinkC == <<"/", "c">>
LinkD == <<"/", "d">>
LinkBAbs == <<"h", "/", "b">>
LinkExt == <<"x", "/", "e">>
LinkProto == <<"/", "/", "e">>

\* Files the server has; every other path answers 404.
PageUrls == {RootUrl \o LinkA, RootUrl \o LinkB, RootUrl \o LinkC}

\* The link lists a page of the site may carry.
LinkLists ==
    { <<>>,
      <<LinkA>>,
      <<LinkB>>,
      <<LinkC>>,
      <<LinkC, LinkC>>,
      <<LinkB, LinkBAbs>>,
      <<LinkB, LinkC>>,
      <<LinkD, LinkC>>,
      <<LinkExt, LinkB>>,
      <<LinkExt, LinkProto>>,
      <<LinkB, LinkC, LinkD>> }

\* The paths Crawl is called with.
StartPaths == {LinkA, LinkD, LinkExt}

\* Assets of the fixture pages: only the last page of the chain has one.
SiteAssets(u) == IF u = RootUrl \o LinkC THEN <<"theend.jpg">> ELSE <<>>

VARIABLES
    site,           \* the server: page URL -> raw links found on it
    FetchLimit,     \* WebCrawler.FetchLimit
    path,           \* the argument of Crawl
    pc,             \* position of Crawl: "start", "loop", "done", "aborted"
    url,            \* Crawl's url after resolution
    requestedUrls,  \* keys of the requestedUrls map
    waiting,        \* the loop counter
    errors,         \* the errors slice
    rootPage,       \* pointer to the root Page, 0 before it exists
    pages,          \* heap: pointer -> Page
    goroutines,     \* every goroutine started by Crawl, in start order
    parseCalls,     \* bag of the URLs handed to Parser.Parse
    ret,            \* what Crawl returned: "none", "json", "error"
    crossWaiting,   \* waiting just before the step at which
                    \* len(requestedUrls) first reached FetchLimit; -1 before
    norm            \* a call of getAbsoluteUrl on its own: its arguments,
                    \* its result and whether it has returned

vars == <<site, FetchLimit, path, pc, url, requestedUrls, waiting, errors,
          rootPage, pages, goroutines, parseCalls, ret, crossWaiting, norm>>

env == <<site, FetchLimit, path, norm>>

\* ------------------------------------------------------------------------
\* Pure functions of crawler.go
\* ------------------------------------------------------------------------

\* strings.HasPrefix
HasPrefix(s, prefix) ==
    /\ Len(s) >= Len(prefix)
    /\ SubSeq(s, 1, Len(prefix)) = prefix

\* getAbsoluteUrl without the test for a leading "//".
getAbsoluteUrlAnySlash(rootUrl, u) ==
    IF HasPrefix(u, <<"/">>) THEN rootUrl \o u ELSE u

getAbsoluteUrl(rootUrl, u) ==
    IF HasPrefix(u, <<"/">>) /\ ~HasPrefix(u, <<"/", "/">>)
    THEN rootUrl \o u
    ELSE u

\* fetchPage without its guard.
InDomainUnchecked(u) == TRUE

\* The guard of fetchPage.
InDomain(u) == HasPrefix(u, RootUrl)

\* UrlParser.Parse against the server: 200 with the page's links and assets
\* for a file the server has, an error otherwise.
Parse(u) ==
    IF u \in PageUrls
    THEN [links |-> site[u], assets |-> SiteAssets(u), err |-> "nil"]
    ELSE [links |-> <<>>, assets |-> <<>>, err |-> "status"]

\* An empty map[string]*Page.
EmptyMap == [k \in {} |-> 0]

\* m[k] = v on a map.
MapPut(m, k, v) == [x \in DOMAIN m \cup {k} |-> IF x = k THEN v ELSE m[x]]

\* fetchPage(parent, u): the Page (or nil), the error, and whether Parse
\* was called.
fetchPage(parent, u) ==
    IF ~InDomain(u)
    THEN [page |-> <<>>, err |-> "domain", parsed |-> FALSE]
    ELSE LET r == Parse(u) IN
         IF r.err # "nil"
         THEN [page |-> <<>>, err |-> r.err, parsed |-> TRUE]
         ELSE [page |-> <<[Url |-> u, Assets |-> r.assets, Links |-> r.links,
                           Children |-> EmptyMap, parent |-> parent]>>,
               err |-> "nil", parsed |-> TRUE]

\* The loop starting a goroutine for every link, requested or not.
AlreadyRequestedNever(requested, l) == FALSE

\* The loop with the domain test moved into it: links outside the domain are
\* skipped instead of being handed to a goroutine.
AlreadyRequestedOrOutside(requested, l) ==
    l \in requested \/ ~HasPrefix(l, RootUrl)

\* requestedUrls[l] != true, negated
AlreadyRequested(requested, l) == l \in requested

\* The fetch-limit test without its "no limit" case.
LimitHitZero(limit, requested) == Cardinality(requested) >= limit

\* The fetch-limit test stopping one request early.
LimitHitEarly(limit, requested) ==
    limit # 0 /\ Cardinality(requested) + 1 >= limit

\* The fetch-limit test written with == instead of >=.
LimitHitExact(limit, requested) ==
    limit # 0 /\ Cardinality(requested) = limit

\* The fetch-limit test of the loop body.
LimitHit(limit, requested) == limit # 0 /\ Cardinality(requested) >= limit

\* The range loop over page.Links: the absolute URLs for which a goroutine
\* is started, in order.
RECURSIVE LinksToFetch(_, _)
LinksToFetch(links, requested) ==
    IF links = <<>>
    THEN <<>>
    ELSE LET l == getAbsoluteUrl(RootUrl, Head(links)) IN
         IF ~AlreadyRequested(requested, l)
         THEN <<l>> \o LinksToFetch(Tail(links), requested \cup {l})
         ELSE LinksToFetch(Tail(links), requested)

Range(s) == {s[i] : i \in DOMAIN s}

\* A goroutine started at crawler.go:99 for link l with the captured page.
NewGoroutine(l, page) ==
    [link |-> l, parent |-> page, pc |-> "fetch", result |-> 0, err |-> "nil"]

\* ------------------------------------------------------------------------
\* The state machine
\* ------------------------------------------------------------------------

Init ==
    /\ site \in [PageUrls -> LinkLists]
    /\ FetchLimit \in 0..MaxFetchLimit
    /\ path \in StartPaths
    /\ pc = "start"
    /\ url = <<>>
    /\ requestedUrls = {}
    /\ waiting = 0
    /\ errors = <<>>
    /\ rootPage = 0
    /\ pages = EmptyMap
    /\ goroutines = <<>>
    /\ parseCalls = EmptyBag
    /\ ret = "none"
    /\ crossWaiting = -1
    /\ norm = [rootUrl |-> <<>>, link |-> <<>>, out |-> <<>>, pc |-> "idle"]

\* The value crossWaiting takes in a step from requested to requested2
\* entered with w messages awaited.
CrossAfter(requested, requested2, w) ==
    IF /\ crossWaiting = -1
       /\ FetchLimit # 0
       /\ Cardinality(requested) < FetchLimit
       /\ Cardinality(requested2) >= FetchLimit
    THEN w
    ELSE crossWaiting

\* Crawl marking the url as requested before it looks at the error of the
\* root fetch.
CrawlBeginMarkFirst ==
    /\ pc = "start"
    /\ LET u == getAbsoluteUrl(RootUrl, path)
           f == fetchPage(0, u)
       IN /\ url' = u
          /\ parseCalls' = IF f.parsed THEN parseCalls (+) SetToBag({u})
                           ELSE parseCalls
          /\ IF f.err # "nil"
             THEN /\ pc' = "aborted"
                  /\ ret' = "error"
                  /\ requestedUrls' = {u}
                  /\ UNCHANGED <<waiting, rootPage, pages, goroutines,
                                 crossWaiting>>
             ELSE /\ pc' = "loop"
                  /\ ret' = "none"
                  /\ requestedUrls' = {u}
                  /\ rootPage' = 1
                  /\ pages' = MapPut(pages, 1, f.page[1])
                  /\ goroutines' = <<[link |-> u, parent |-> 0, pc |-> "send",
                                      result |-> 1, err |-> "nil"]>>
                  /\ waiting' = 1
                  /\ crossWaiting' = CrossAfter({}, {u}, 0)
    /\ UNCHANGED <<errors, env>>

\* Crawl that does not mark the root url as requested.
CrawlBeginNoMark ==
    /\ pc = "start"
    /\ LET u == getAbsoluteUrl(RootUrl, path)
           f == fetchPage(0, u)
       IN /\ url' = u
          /\ parseCalls' = IF f.parsed THEN parseCalls (+) SetToBag({u})
                           ELSE parseCalls
          /\ IF f.err # "nil"
             THEN /\ pc' = "aborted"
                  /\ ret' = "error"
                  /\ UNCHANGED <<requestedUrls, waiting, rootPage, pages,
                                 goroutines, crossWaiting>>
             ELSE /\ pc' = "loop"
                  /\ ret' = "none"
                  /\ requestedUrls' = {}
                  /\ rootPage' = 1
                  /\ pages' = MapPut(pages, 1, f.page[1])
                  /\ goroutines' = <<[link |-> u, parent |-> 0, pc |-> "send",
                                      result |-> 1, err |-> "nil"]>>
                  /\ waiting' = 1
                  /\ crossWaiting' = CrossAfter({}, {u}, 0)
    /\ UNCHANGED <<errors, env>>

\* Crawl up to the loop: resolve the path, fetch the root synchronously,
\* return the error or mark the root requested and start the goroutine that
\* sends the root message.
CrawlBegin ==
    /\ pc = "start"
    /\ LET u == getAbsoluteUrl(RootUrl, path)
           f == fetchPage(0, u)
       IN /\ url' = u
          /\ parseCalls' = IF f.parsed THEN parseCalls (+) SetToBag({u})
                           ELSE parseCalls
          /\ IF f.err # "nil"
             THEN /\ pc' = "aborted"
                  /\ ret' = "error"
                  /\ UNCHANGED <<requestedUrls, waiting, rootPage, pages,
                                 goroutines, crossWaiting>>
             ELSE /\ pc' = "loop"
                  /\ ret' = "none"
                  /\ requestedUrls' = {u}
                  /\ rootPage' = 1
                  /\ pages' = MapPut(pages, 1, f.page[1])
                  /\ goroutines' = <<[link |-> u, parent |-> 0, pc |-> "send",
                                      result |-> 1, err |-> "nil"]>>
                  /\ waiting' = 1
                  /\ crossWaiting' = CrossAfter({}, {u}, 0)
    /\ UNCHANGED <<errors, env>>

\* A goroutine that puts the Page it fetched into its parent's Children
\* itself, instead of leaving that to the loop.
GoFetchAttach(i) ==
    /\ i \in DOMAIN goroutines
    /\ goroutines[i].pc = "fetch"
    /\ LET g == goroutines[i]
           f == fetchPage(g.parent, g.link)
       IN /\ parseCalls' = IF f.parsed THEN parseCalls (+) SetToBag({g.link})
                           ELSE parseCalls
          /\ pages' = IF f.err = "nil"
                      THEN [MapPut(pages, i, f.page[1]) EXCEPT
                              ![g.parent].Children = MapPut(@, g.link, i)]
                      ELSE pages
          /\ goroutines' = [goroutines EXCEPT
                              ![i].pc = "send",
                              ![i].err = f.err,
                              ![i].result = IF f.err = "nil" THEN i ELSE 0]
    /\ UNCHANGED <<pc, url, requestedUrls, waiting, errors, rootPage, ret,
                   crossWaiting, env>>

\* The body of a goroutine up to its send: fetchPage(page, link).
GoFetch(i) ==
    /\ i \in DOMAIN goroutines
    /\ goroutines[i].pc = "fetch"
    /\ LET g == goroutines[i]
           f == fetchPage(g.parent, g.link)
       IN /\ parseCalls' = IF f.parsed THEN parseCalls (+) SetToBag({g.link})
                           ELSE parseCalls
          /\ pages' = IF f.err = "nil" THEN MapPut(pages, i, f.page[1])
                      ELSE pages
          /\ goroutines' = [goroutines EXCEPT
                              ![i].pc = "send",
                              ![i].err = f.err,
                              ![i].result = IF f.err = "nil" THEN i ELSE 0]
    /\ UNCHANGED <<pc, url, requestedUrls, waiting, errors, rootPage, ret,
                   crossWaiting, env>>

\* The decrement written at the end of the body instead of in the post
\* statement: an iteration left through continue skips it.
WaitingAfterBody(w, n, continued) == IF continued THEN w + n ELSE w + n - 1

\* The loop without waiting++ next to the go statement.
WaitingAfterNoIncrement(w, n, continued) == w - 1

\* waiting after one iteration that started n goroutines: the increments of
\* the body and the decrement of the post statement (which continue runs too).
WaitingAfter(w, n, continued) == w + n - 1

\* The attachment written after the fetch-limit test.
AttachUnderLimit(ps, msg) ==
    IF msg.err = "nil" /\ ps[msg.result].parent # 0
       /\ ~LimitHit(FetchLimit, requestedUrls)
    THEN [ps EXCEPT ![ps[msg.result].parent].Children =
                       MapPut(@, ps[msg.result].Url, msg.result)]
    ELSE ps

\* The attachment made to the root Page instead of the page's parent.
AttachToRoot(ps, msg) ==
    IF msg.err = "nil" /\ ps[msg.result].parent # 0
    THEN [ps EXCEPT ![rootPage].Children =
                       MapPut(@, ps[msg.result].Url, msg.result)]
    ELSE ps

\* The attachment that assigns a fresh map holding only the new child.
AttachReplace(ps, msg) ==
    IF msg.err = "nil" /\ ps[msg.result].parent # 0
    THEN [ps EXCEPT ![ps[msg.result].parent].Children =
                       MapPut(EmptyMap, ps[msg.result].Url, msg.result)]
    ELSE ps

\* page.parent.Children[page.Url] = page, for a message without error whose
\* page has a parent.
Attach(ps, msg) ==
    IF msg.err = "nil" /\ ps[msg.result].parent # 0
    THEN [ps EXCEPT ![ps[msg.result].parent].Children =
                       MapPut(@, ps[msg.result].Url, msg.result)]
    ELSE ps

\* One iteration of the loop: receive the message goroutine i is sending,
\* process it, run the post statement and the loop condition; when the loop
\* ends, marshal the tree and return.
ReducerStep(i) ==
    /\ pc = "loop"
    /\ waiting > 0
    /\ i \in DOMAIN goroutines
    /\ goroutines[i].pc = "send"
    /\ LET msg == goroutines[i]
           page == msg.result
           continued == msg.err # "nil" \/ LimitHit(FetchLimit, requestedUrls)
           fetches ==
               IF continued
               THEN <<>>
               ELSE LinksToFetch(pages[page].Links, requestedUrls)
           sent == [goroutines EXCEPT ![i].pc = "exit"]
           started == [k \in 1..Len(fetches) |-> NewGoroutine(fetches[k], page)]
       IN /\ errors' = IF msg.err # "nil"
                       THEN Append(errors, [err |-> msg.err, url |-> msg.link])
                       ELSE errors
          /\ pages' = Attach(pages, msg)
          /\ requestedUrls' = requestedUrls \cup Range(fetches)
          /\ goroutines' = sent \o started
          /\ waiting' = WaitingAfter(waiting, Len(fetches), continued)
          /\ crossWaiting' = CrossAfter(requestedUrls, requestedUrls', waiting)
          /\ pc' = IF waiting' > 0 THEN "loop" ELSE "done"
          /\ ret' = IF waiting' > 0 THEN "none" ELSE "json"
    /\ UNCHANGED <<url, rootPage, parseCalls, env>>

Next ==
    \/ CrawlBegin
    \/ \E i \in DOMAIN goroutines : GoFetch(i)
    \/ \E i \in DOMAIN goroutines : ReducerStep(i)

Spec == Init /\ [][Next]_vars


\* Fairness the Go scheduler gives: Crawl runs, every goroutine runs its
\* fetch (every dispatched fetch returns), and the receive of the loop takes
\* a message when one is being sent.
FairSpec ==
    /\ Spec
    /\ WF_vars(CrawlBegin)
    /\ WF_vars(\E i \in DOMAIN goroutines : GoFetch(i))
    /\ WF_vars(\E i \in DOMAIN goroutines : ReducerStep(i))

\* getAbsoluteUrl on its own: the strings it is called with.
Alphabet == {"/", "h", "a"}

Strings == UNION {[1..n -> Alphabet] : n \in 0..MaxStrLen}

\* No crawl is under way; a call getAbsoluteUrl(rootUrl, link) is about to
\* be made.
NormInit ==
    /\ site = [u \in PageUrls |-> <<>>]
    /\ FetchLimit = 0
    /\ path = <<>>
    /\ pc = "start"
    /\ url = <<>>
    /\ requestedUrls = {}
    /\ waiting = 0
    /\ errors = <<>>
    /\ rootPage = 0
    /\ pages = EmptyMap
    /\ goroutines = <<>>
    /\ parseCalls = EmptyBag
    /\ ret = "none"
    /\ crossWaiting = -1
    /\ norm \in [rootUrl : Strings, link : Strings, out : {<<>>},
                  pc : {"call"}]

\* The call returns.
NormApply ==
    /\ norm.pc = "call"
    /\ norm' = [norm EXCEPT !.out = getAbsoluteUrl(norm.rootUrl, norm.link),
                            !.pc = "ret"]
    /\ UNCHANGED <<site, FetchLimit, path, pc, url, requestedUrls, waiting,
                   errors, rootPage, pages, goroutines, parseCalls, ret,
                   crossWaiting>>

NormNext == NormApply

NormSpec == NormInit /\ [][NormNext]_vars

\* ------------------------------------------------------------------------
\* Derived views of the state
\* ------------------------------------------------------------------------

\* Keys of the children map of any Page on the heap.
ChildKeys == UNION {DOMAIN pages[p].Children : p \in DOMAIN pages}

RECURSIVE Descend(_, _)
Descend(S, n) ==
    IF n = 0
    THEN S
    ELSE Descend(S \cup UNION {{pages[p].Children[k] :
                                    k \in DOMAIN pages[p].Children} :
                                 p \in S}, n - 1)

\* Pointers of the Pages of the tree: the root and what its children maps
\* lead to.
TreePages ==
    IF rootPage = 0 THEN {} ELSE Descend({rootPage}, Cardinality(DOMAIN pages))

TreeUrls == {pages[p].Url : p \in TreePages}

\* Goroutines started for a link (all but the one sending the root message).
Workers == {i \in DOMAIN goroutines : goroutines[i].parent # 0}

\* Number of entries of errors about u.
ErrorsFor(u) == Cardinality({k \in DOMAIN errors : errors[k].url = u})

\* The root fetch fails: the server has no such file, or the url is outside
\* the domain.
RootFetchFails == url \notin PageUrls \/ ~HasPrefix(url, RootUrl)

\* ------------------------------------------------------------------------
\* Claims
\* ------------------------------------------------------------------------

\* C1: single fetch per URL - no absolute URL is handed to Parser.Parse more
\* than once, whatever the links of the site and the interleaving.
C1_SingleFetchPerUrl ==
    \A u \in BagToSet(parseCalls) : CopiesIn(u, parseCalls) = 1

\* C1 witness: the crawl is over on a site whose root lists /b and h/b, and
\* whose page b links back to the root; both were fetched.
C1_Witness ==
    /\ pc = "done"
    /\ site[RootUrl \o LinkA] = <<LinkB, LinkBAbs>>
    /\ site[RootUrl \o LinkB] = <<LinkA>>
    /\ CopiesIn(RootUrl \o LinkA, parseCalls) = 1
    /\ CopiesIn(RootUrl \o LinkB, parseCalls) = 1

\* C2: domain confinement - a URL that does not have RootUrl as a literal
\* prefix is never a key of a children map and is never handed to Parse.
C2_DomainConfinement ==
    \A u \in BagToSet(parseCalls) \cup ChildKeys : HasPrefix(u, RootUrl)

\* C2 witness: the crawl is over and a goroutine started for an external
\* link has delivered its message.
C2_Witness ==
    /\ pc = "done"
    /\ \E i \in Workers : /\ ~HasPrefix(goroutines[i].link, RootUrl)
                          /\ goroutines[i].pc = "exit"

\* C3 as claimed: an out-of-domain link is dropped by the loop - it is never
\* in requestedUrls, no goroutine is started for it, errors has no entry
\* for it.
C3_OutOfDomainDropped ==
    \A l \in UNION {Range(pages[p].Links) : p \in DOMAIN pages} :
        LET u == getAbsoluteUrl(RootUrl, l) IN
        ~HasPrefix(u, RootUrl) =>
            /\ u \notin requestedUrls
            /\ \A i \in DOMAIN goroutines : goroutines[i].link # u
            /\ ErrorsFor(u) = 0

\* Pages whose message the loop has processed.
ProcessedPages ==
    {goroutines[i].result :
        i \in {j \in DOMAIN goroutines : /\ goroutines[j].pc = "exit"
                                         /\ goroutines[j].err = "nil"}}

\* C3 amended: an out-of-domain link is never handed to Parse and is never a
\* children key, but the loop treats it as any other new link: while the
\* limit is not hit it enters requestedUrls and exactly one goroutine is
\* started for it, whose fetchPage refuses it, and one entry of errors
\* records it once its message is processed.
C3_OutOfDomainRejectedByWorker ==
    /\ \A u \in requestedUrls :
          (pc # "start" /\ ~HasPrefix(u, RootUrl)) =>
             /\ CopiesIn(u, parseCalls) = 0
             /\ u \notin ChildKeys
             /\ Cardinality({i \in Workers : goroutines[i].link = u}) = 1
             /\ \A i \in Workers :
                   goroutines[i].link = u =>
                      /\ goroutines[i].pc # "fetch" =>
                            /\ goroutines[i].err = "domain"
                            /\ goroutines[i].result = 0
                      /\ ErrorsFor(u) =
                            IF goroutines[i].pc = "exit" THEN 1 ELSE 0
    /\ (FetchLimit = 0 \/ Cardinality(requestedUrls) < FetchLimit) =>
          \A p \in ProcessedPages : \A l \in Range(pages[p].Links) :
              getAbsoluteUrl(RootUrl, l) \in requestedUrls

\* C3 witness: the crawl is over, the external link of a fetched page is in
\* requestedUrls and errors records it.
C3_Witness ==
    /\ pc = "done"
    /\ LinkExt \in requestedUrls
    /\ ErrorsFor(LinkExt) = 1

\* C4: root failure is fatal - when the fetch of the resolved start url
\* fails, Crawl returns an error and no tree, no goroutine is started,
\* requestedUrls stays empty and Parse was called at most once.
C4_RootFailureFatal ==
    (pc # "start" /\ RootFetchFails) =>
        /\ pc = "aborted"
        /\ ret = "error"
        /\ rootPage = 0
        /\ DOMAIN pages = {}
        /\ goroutines = <<>>
        /\ waiting = 0
        /\ requestedUrls = {}
        /\ BagCardinality(parseCalls) <= 1
        /\ BagToSet(parseCalls) \subseteq {url}

\* C4 witness: Crawl has returned the error of a root that answers 404
\* (Parse was called once).
C4_Witness ==
    /\ pc = "aborted"
    /\ path = LinkD
    /\ BagCardinality(parseCalls) = 1

\* The state part of C5.
C5_Tolerated ==
    /\ rootPage # 0 => (pc \in {"loop", "done"} /\ ret # "error")
    /\ pc = "done" => (ret = "json" /\ rootPage # 0)
    /\ \A i \in Workers :
          (goroutines[i].pc # "fetch" /\ goroutines[i].err # "nil") =>
             /\ goroutines[i].link \notin ChildKeys
             /\ \E l \in Range(pages[goroutines[i].parent].Links) :
                   getAbsoluteUrl(RootUrl, l) = goroutines[i].link
    /\ pc = "done" =>
          \A i \in Workers :
             goroutines[i].err = "nil" =>
                LET parent == pages[goroutines[i].parent] IN
                /\ goroutines[i].link \in DOMAIN parent.Children
                /\ parent.Children[goroutines[i].link] = i

\* C5: non-root failure is tolerated - once the root fetch has succeeded the
\* crawl never returns an error and ends in done with the tree; a URL whose
\* fetch failed is a key of no children map and stays among its parent's raw
\* links; at done every page fetched successfully is attached to its parent.
C5_NonRootFailureTolerated ==
    /\ []C5_Tolerated
    /\ (rootPage # 0) ~> (pc = "done" /\ ret = "json")

\* C5 witness: the crawl is over on a root with a broken link and a good
\* one; the good one is the only child.
C5_Witness ==
    /\ pc = "done"
    /\ site[RootUrl \o LinkA] = <<LinkD, LinkC>>
    /\ ErrorsFor(RootUrl \o LinkD) = 1
    /\ DOMAIN pages[rootPage].Children = {RootUrl \o LinkC}


\* C6 as claimed: with a positive FetchLimit, requestedUrls never holds more
\* than FetchLimit URLs, so no more than FetchLimit fetches are made.
C6_FetchLimitBounds ==
    FetchLimit > 0 =>
        /\ Cardinality(requestedUrls) <= FetchLimit
        /\ BagCardinality(parseCalls) <= FetchLimit

\* C7 as claimed: with a positive FetchLimit, the number of requested URLs
\* exceeds FetchLimit by at most the number of messages awaited just before
\* the step at which len(requestedUrls) first reached FetchLimit.
C7_SoftCapUpperBound ==
    (FetchLimit > 0 /\ crossWaiting # -1) =>
        Cardinality(requestedUrls) <= FetchLimit + crossWaiting

\* C8 as claimed: with a positive FetchLimit and a root that was fetched, at
\* least FetchLimit fetches have been made when the crawl is done.
C8_SoftCapLowerBound ==
    (pc = "done" /\ FetchLimit > 0) =>
        BagCardinality(parseCalls) >= FetchLimit

\* C8 amended: with a positive FetchLimit and a root that was fetched, when
\* the crawl is done either at least FetchLimit URLs were requested
\* (out-of-domain and failing ones included), or the limit never stopped a
\* page: every link of every Page of the tree was requested.
C8_LimitReachedOrSiteExhausted ==
    (pc = "done" /\ FetchLimit > 0) =>
        \/ Cardinality(requestedUrls) >= FetchLimit
        \/ \A p \in TreePages : \A l \in Range(pages[p].Links) :
              getAbsoluteUrl(RootUrl, l) \in requestedUrls

\* C8 witness: a crawl with limit 3 is done on a site of two pages, with two
\* URLs requested.
C8_Witness ==
    /\ pc = "done"
    /\ FetchLimit = 3
    /\ Cardinality(requestedUrls) = 2
    /\ Cardinality(TreePages) = 2

\* The URLs that links of successfully fetched pages lead to from S, in n
\* rounds, kept when their own fetch succeeds.
RECURSIVE Closure(_, _)
Closure(S, n) ==
    IF n = 0
    THEN S
    ELSE Closure(S \cup {u \in PageUrls :
                           /\ HasPrefix(u, RootUrl)
                           /\ \E v \in S : \E k \in DOMAIN site[v] :
                                 getAbsoluteUrl(RootUrl, site[v][k]) = u},
                 n - 1)

\* C9: completeness without a limit - with FetchLimit = 0 and a root that
\* was fetched, the URLs of the Pages of the tree at done are exactly the
\* in-domain URLs reachable from the root through links of successfully
\* fetched pages and whose own fetch succeeds.
C9_CompleteWithoutLimit ==
    (pc = "done" /\ FetchLimit = 0) =>
        TreeUrls = Closure({url}, Cardinality(PageUrls))

\* C9 witness: an unlimited crawl of the chain a -> b -> c is done with the
\* three pages in the tree.
C9_Witness ==
    /\ pc = "done"
    /\ FetchLimit = 0
    /\ site[RootUrl \o LinkA] = <<LinkB>>
    /\ site[RootUrl \o LinkB] = <<LinkC, LinkC>>
    /\ TreeUrls = PageUrls

\* C10: termination - when every goroutine's fetch returns and Crawl and the
\* goroutines are scheduled fairly, every crawl reaches done or aborted.
C10_Termination == <>(pc \in {"done", "aborted"})

\* C10 witness: a crawl with a cycle a -> b -> a in the link graph is done.
C10_Witness ==
    /\ pc = "done"
    /\ site[RootUrl \o LinkA] = <<LinkB, LinkC>>
    /\ site[RootUrl \o LinkB] = <<LinkA>>
    /\ site[RootUrl \o LinkC] = <<LinkA>>
    /\ TreeUrls = PageUrls


\* Pointers held by the children map of the Page at p.
ChildrenOf(p) == {pages[p].Children[k] : k \in DOMAIN pages[p].Children}

\* The state part of C11.
C11_Hierarchy ==
    /\ \A u \in ChildKeys :
          Cardinality({p \in DOMAIN pages : u \in DOMAIN pages[p].Children}) = 1
    /\ rootPage # 0 => pages[rootPage].Url \notin ChildKeys
    /\ \A p \in DOMAIN pages :
          /\ p \notin Descend(ChildrenOf(p), Cardinality(DOMAIN pages))
          /\ \A c \in ChildrenOf(p) : pages[c].parent = p

\* The step part of C11: a Page stays on the heap with the parent it was
\* created with.
C11_ParentsKept ==
    \A p \in DOMAIN pages :
        /\ p \in DOMAIN pages'
        /\ pages'[p].parent = pages[p].parent

\* C11: strict hierarchy - each URL is a key of at most one children map,
\* the root URL is a key of none, a Page's parent never changes, and the
\* children relation is acyclic with every child pointing back to the Page
\* that holds it, also on link graphs with cycles and shared targets.
C11_StrictHierarchy == []C11_Hierarchy /\ [][C11_ParentsKept]_vars

\* C11 witness: the crawl is over on a site where a and b both link to c and
\* c links back to a; c hangs under exactly one of them.
C11_Witness ==
    /\ pc = "done"
    /\ site[RootUrl \o LinkA] = <<LinkB, LinkC>>
    /\ site[RootUrl \o LinkB] = <<LinkC>>
    /\ site[RootUrl \o LinkC] = <<LinkA>>
    /\ TreeUrls = PageUrls

\* C12: the cap is sticky - with a positive FetchLimit, from a state with
\* len(requestedUrls) >= FetchLimit no step adds to requestedUrls or starts
\* a goroutine, and a message received in such a state still has its page
\* attached to the parent.
C12_StickyCap ==
    [][(FetchLimit > 0 /\ Cardinality(requestedUrls) >= FetchLimit) =>
          /\ requestedUrls' = requestedUrls
          /\ Len(goroutines') = Len(goroutines)
          /\ waiting' <= waiting
          /\ \A i \in DOMAIN goroutines :
                (/\ goroutines[i].pc = "send"
                 /\ goroutines'[i].pc = "exit"
                 /\ goroutines[i].err = "nil"
                 /\ goroutines[i].parent # 0) =>
                    /\ goroutines[i].link \in
                          DOMAIN pages'[goroutines[i].parent].Children
                    /\ pages'[goroutines[i].parent].Children[goroutines[i].link]
                          = goroutines[i].result]_vars

\* C12 witness: with limit 2 the root started two goroutines, the message
\* of b (which links to the unrequested d and c) was received after the cap
\* and b is attached, yet nothing more was requested.
C12_Witness ==
    /\ pc = "done"
    /\ FetchLimit = 2
    /\ site[RootUrl \o LinkA] = <<LinkExt, LinkB>>
    /\ site[RootUrl \o LinkB] = <<LinkD, LinkC>>
    /\ RootUrl \o LinkB \in DOMAIN pages[rootPage].Children
    /\ requestedUrls = {RootUrl \o LinkA, LinkExt, RootUrl \o LinkB}

\* C13: outstanding counter - waiting is 1 when the loop starts with only
\* the root message, at every evaluation of the loop condition it is the
\* number of goroutines that have not yet handed over their message, the
\* loop runs while it is positive, and done is reached with it at 0 and every
\* goroutine's message received.
C13_OutstandingCounter ==
    LET pending == Cardinality({i \in DOMAIN goroutines :
                                   goroutines[i].pc # "exit"})
    IN /\ pc \in {"loop", "done"} => waiting = pending
       /\ pc = "loop" => waiting > 0
       /\ pc = "done" => waiting = 0
       /\ (pc = "loop" /\ Len(goroutines) = 1) => waiting = 1

\* C13 witness: the loop is running with three messages outstanding, one
\* goroutine still fetching and two waiting to send.
C13_Witness ==
    /\ pc = "loop"
    /\ waiting = 3
    /\ Cardinality({i \in DOMAIN goroutines : goroutines[i].pc = "fetch"}) = 1
    /\ Cardinality({i \in DOMAIN goroutines : goroutines[i].pc = "send"}) = 2


\* A goroutine ran its fetchPage in this step.
WorkerStep ==
    \E i \in DOMAIN goroutines :
        /\ goroutines[i].pc = "fetch"
        /\ goroutines'[i].pc = "send"

\* The loop received a message in this step.
ReceiveStep ==
    /\ pc = "loop"
    /\ \E i \in DOMAIN goroutines :
          /\ goroutines[i].pc = "send"
          /\ goroutines'[i].pc = "exit"

\* requestedUrls, waiting, errors and every children map are as before.
SharedKept ==
    /\ requestedUrls' = requestedUrls
    /\ waiting' = waiting
    /\ errors' = errors
    /\ \A p \in DOMAIN pages :
          /\ p \in DOMAIN pages'
          /\ pages'[p].Children = pages[p].Children

\* C14: single-owner mutation - a step of a goroutine (its fetchPage, up to
\* the point where it offers its message) leaves requestedUrls, waiting,
\* errors and every children map unchanged; once the loop runs, these change
\* only in the step in which the loop receives and processes a message.
C14_SingleOwner ==
    [][/\ WorkerStep => SharedKept
       /\ (pc = "loop" /\ ~SharedKept) => ReceiveStep]_vars

\* C14 witness: a goroutine has fetched its page and waits to send it; the
\* page exists but its parent's children map does not hold it yet.
C14_Witness ==
    \E i \in Workers :
        /\ goroutines[i].pc = "send"
        /\ goroutines[i].err = "nil"
        /\ i \in DOMAIN pages
        /\ goroutines[i].link \notin DOMAIN pages[goroutines[i].parent].Children

\* Number of Pages of the tree whose Url is u.
TreePagesFor(u) == Cardinality({p \in TreePages : pages[p].Url = u})

\* C15: every requested URL is resolved exactly once - at done each URL of
\* requestedUrls is the Url of exactly one Page of the tree or the subject of
\* exactly one entry of errors, never both and never neither; errors has no
\* entry for the root and none for a URL that was not requested.
C15_ResolvedExactlyOnce ==
    pc = "done" =>
        /\ \A u \in requestedUrls :
              \/ TreePagesFor(u) = 1 /\ ErrorsFor(u) = 0
              \/ TreePagesFor(u) = 0 /\ ErrorsFor(u) = 1
        /\ \A k \in DOMAIN errors :
              /\ errors[k].url # url
              /\ errors[k].url \in requestedUrls

\* C15 witness: a crawl with limit 2 is done; b and c were received after
\* the limit was reached and are in the tree, d is in errors.
C15_Witness ==
    /\ pc = "done"
    /\ FetchLimit = 2
    /\ site[RootUrl \o LinkA] = <<LinkB, LinkC, LinkD>>
    /\ TreeUrls = PageUrls
    /\ ErrorsFor(RootUrl \o LinkD) = 1

\* C16: tree edges follow links - for every Page P and key K of P.Children,
\* K is the absolute form of one of P's raw links, the child's Url is K and
\* the child carries the links and assets the server gave for K; the
\* unlimited crawl of the chain a -> b -> c ends with
\* root.Children[b].Children[c], c carrying its asset.
C16_EdgesFollowLinks ==
    /\ \A p \in DOMAIN pages : \A K \in DOMAIN pages[p].Children :
          LET child == pages[pages[p].Children[K]] IN
          /\ \E k \in DOMAIN pages[p].Links :
                getAbsoluteUrl(RootUrl, pages[p].Links[k]) = K
          /\ child.Url = K
          /\ K \in PageUrls
          /\ child.Links = site[K]
          /\ child.Assets = SiteAssets(K)
    /\ (/\ pc = "done"
        /\ FetchLimit = 0
        /\ site[RootUrl \o LinkA] = <<LinkB>>
        /\ site[RootUrl \o LinkB] = <<LinkC>>) =>
          LET A == pages[rootPage] IN
          /\ A.Url = RootUrl \o LinkA
          /\ DOMAIN A.Children = {RootUrl \o LinkB}
          /\ LET B == pages[A.Children[RootUrl \o LinkB]] IN
             /\ DOMAIN B.Children = {RootUrl \o LinkC}
             /\ LET C == pages[B.Children[RootUrl \o LinkC]] IN
                /\ C.Assets = <<"theend.jpg">>
                /\ DOMAIN C.Children = {}

\* C16 witness: the unlimited crawl of the chain a -> b -> c is done and c
\* hangs two levels below the root.
C16_Witness ==
    /\ pc = "done"
    /\ FetchLimit = 0
    /\ site[RootUrl \o LinkA] = <<LinkB>>
    /\ site[RootUrl \o LinkB] = <<LinkC>>
    /\ \E p \in ChildrenOf(rootPage) :
          \E q \in ChildrenOf(p) : pages[q].Url = RootUrl \o LinkC


\* The state part of C17: what a children map holds, and the parent a
\* goroutine was started with, are Pages of the tree.
C17_Reachable ==
    /\ \A p \in DOMAIN pages : ChildrenOf(p) \subseteq TreePages
    /\ \A i \in Workers : goroutines[i].parent \in TreePages

\* The step part of C17: every entry of every children map is kept.
C17_ChildrenKept ==
    \A p \in DOMAIN pages : \A k \in DOMAIN pages[p].Children :
        /\ p \in DOMAIN pages'
        /\ k \in DOMAIN pages'[p].Children
        /\ pages'[p].Children[k] = pages[p].Children[k]

\* C17: no orphans - every Page held by a children map is reachable from the
\* root Page through children maps, a goroutine is only ever started with a
\* parent that is already in the tree, and no Page is ever removed from a
\* children map.
C17_NoOrphans == []C17_Reachable /\ [][C17_ChildrenKept]_vars

\* C17 witness: c hangs under b, b under the root, and a goroutine started
\* with c as parent is still fetching.
C17_Witness ==
    /\ pc = "loop"
    /\ \E p \in ChildrenOf(rootPage) : \E q \in ChildrenOf(p) :
          \E i \in Workers : /\ goroutines[i].parent = q
                             /\ goroutines[i].pc = "fetch"

\* The state part of C18.
C18_NoLeak ==
    /\ pc = "loop" => \E i \in DOMAIN goroutines : goroutines[i].pc # "exit"
    /\ pc = "done" => \A i \in DOMAIN goroutines : goroutines[i].pc = "exit"

\* C18: no deadlock and no leaked worker - while the loop runs some
\* goroutine is still to deliver a message, at done every goroutine has
\* delivered its message and ended, and every goroutine that was started
\* eventually hands its message to the loop.
C18_NoDeadlockNoLeak ==
    /\ []C18_NoLeak
    /\ <>[](\A i \in DOMAIN goroutines : goroutines[i].pc = "exit")

\* C18 witness: the crawl is done after five goroutines, all ended.
C18_Witness ==
    /\ pc = "done"
    /\ Len(goroutines) = 5
    /\ \A i \in DOMAIN goroutines : goroutines[i].pc = "exit"

\* C19: requested only grows - requestedUrls holds the root url from the
\* moment the loop starts, and no step removes an entry from it.
C19_RequestedOnlyGrows ==
    /\ [](pc \in {"loop", "done"} => url \in requestedUrls)
    /\ [][requestedUrls \subseteq requestedUrls']_vars

\* C19 witness: the crawl is done with the root url and three more URLs
\* requested.
C19_Witness ==
    /\ pc = "done"
    /\ url \in requestedUrls
    /\ Cardinality(requestedUrls) = 4

\* C20: URL normalisation - getAbsoluteUrl(r, l) is r followed by l when l
\* begins with a single "/" (not "//"), and l unchanged otherwise.
C20_Normalisation ==
    norm.pc = "ret" =>
        LET r == norm.rootUrl
            l == norm.link
            out == norm.out
            single == /\ Len(l) >= 1
                      /\ l[1] = "/"
                      /\ (Len(l) >= 2 => l[2] # "/")
        IN IF single
           THEN /\ Len(out) = Len(r) + Len(l)
                /\ \A k \in 1..Len(r) : out[k] = r[k]
                /\ \A k \in 1..Len(l) : out[Len(r) + k] = l[k]
           ELSE out = l

\* C20 witness: root "h" and link "/a" have given "h/a".
C20_Witness ==
    /\ norm.pc = "ret"
    /\ norm.rootUrl = <<"h">>
    /\ norm.link = <<"/", "a">>
    /\ norm.out = <<"h", "/", "a">>

====
